---- MODULE Spec2Model ----
(***************************************************************************)
(* python-frontmatter: detection, splitting, decoding and rendering of     *)
(* front matter (frontmatter/__init__.py, frontmatter/default_handlers.py, *)
(* frontmatter/util.py).                                                   *)
(*                                                                         *)
(* A text is a sequence of one-character strings.  The regular expressions *)
(* of the handlers are evaluated as Python's re module evaluates them      *)
(* (greedy, backtracking, MULTILINE), the string methods as str does.      *)
(***************************************************************************)
EXTENDS Integers, Sequences, FiniteSets, TLC

VARIABLES text, post, ret, global_handlers, attrs, threads

vars == <<text, post, ret, global_handlers, attrs, threads>>

\* what the calls of one thread leave alone: the global registry, the
\* attributes of the registered handler instances and the other threads
shared == <<global_handlers, attrs, threads>>

(***************************************************************************)
(* Characters                                                              *)
(***************************************************************************)
LF == "\n"
CR == "\r"
SP == " "
QUOTE == "\""

\* the characters str.strip() and the regex class \s treat as whitespace
Whitespace == {SP, LF, CR}

Rep(c, n) == [i \in 1..n |-> c]

RECURSIVE Concat(_)
Concat(ss) == IF ss = <<>> THEN <<>> ELSE Head(ss) \o Concat(Tail(ss))

(***************************************************************************)
(* str methods                                                             *)
(***************************************************************************)
RECURSIVE lstrip(_)
lstrip(s) ==
    IF s # <<>> /\ Head(s) \in Whitespace THEN lstrip(Tail(s)) ELSE s

RECURSIVE rstrip(_)
rstrip(s) ==
    IF s # <<>> /\ s[Len(s)] \in Whitespace
    THEN rstrip(SubSeq(s, 1, Len(s) - 1))
    ELSE s

strip(s) == rstrip(lstrip(s))

\* str.replace("\r\n", "\n"): one pass, left to right, non-overlapping
RECURSIVE replace_crlf(_)
replace_crlf(s) ==
    IF s = <<>> THEN <<>>
    ELSE IF Len(s) >= 2 /\ s[1] = CR /\ s[2] = LF
         THEN <<LF>> \o replace_crlf(SubSeq(s, 3, Len(s)))
         ELSE <<s[1]>> \o replace_crlf(Tail(s))

\* util.u for a character string (bytes are decoded first, then the same)
u(s) == replace_crlf(s)

(***************************************************************************)
(* re: the boundary patterns                                               *)
(***************************************************************************)
\* {3,} in the YAML and TOML patterns
MinRun == 3
\* maxsplit of FM_BOUNDARY.split(text, 2)
MaxSplit == 2

\* a ^ that holds anywhere in the text
BolAt_anywhere(s, i) == TRUE

\* ^ under re.MULTILINE, before the character at index i
BolAt(s, i) == i = 1 \/ s[i - 1] = LF
\* $ under re.MULTILINE, before the character at index p
EolAt(s, p) == p = Len(s) + 1 \/ (p <= Len(s) /\ s[p] = LF)

\* the number of consecutive characters of C starting at index i
RECURSIVE RunLen(_, _, _)
RunLen(s, i, C) ==
    IF i <= Len(s) /\ s[i] \in C THEN 1 + RunLen(s, i + 1, C) ELSE 0

\* the greedy choice among the <<dashes, whitespace>> lengths that reach an
\* end of line: the longest run first, then the longest whitespace
GreedyEnd(i, ok) ==
    LET d == CHOOSE x \in {dw[1] : dw \in ok} : \A dw \in ok : dw[1] <= x
        w == CHOOSE y \in {dw[2] : dw \in ok} :
                 /\ <<d, y>> \in ok
                 /\ \A dw \in ok : dw[1] = d => dw[2] <= y
    IN  IF ok = {} THEN 0 ELSE i + d + w

\* ^c{3,}\s*$ tried at index i: the index after the match, 0 when none.
\* c{3,} and \s* are greedy and backtrack to shorter lengths.
RunMatchEnd(c, s, i) ==
    IF ~BolAt(s, i) THEN 0
    ELSE GreedyEnd(i, {dw \in (MinRun..RunLen(s, i, {c})) \X (0..Len(s)) :
                          /\ dw[2] <= RunLen(s, i + dw[1], Whitespace)
                          /\ EolAt(s, i + dw[1] + dw[2])})

\* ^(?:{|})$ tried at index i
BraceMatchEnd(s, i) ==
    IF BolAt(s, i) /\ i <= Len(s) /\ s[i] \in {"{", "}"} /\ EolAt(s, i + 1)
    THEN i + 1 ELSE 0

\* FM_BOUNDARY of each handler class
FM_BOUNDARY(cls) ==
    CASE cls = "YAMLHandler" -> [kind |-> "run", ch |-> "-"]
      [] cls = "JSONHandler" -> [kind |-> "brace", ch |-> "{"]
      [] cls = "TOMLHandler" -> [kind |-> "run", ch |-> "+"]

MatchEnd(pat, s, i) ==
    IF pat.kind = "run" THEN RunMatchEnd(pat.ch, s, i) ELSE BraceMatchEnd(s, i)

\* Pattern.match(s): a match at the first character only
re_match(pat, s) == MatchEnd(pat, s, 1) # 0

Least(S) == IF S = {} THEN 0 ELSE CHOOSE i \in S : \A j \in S : i <= j

\* the start of the leftmost match at or after index from, 0 when none
re_search(pat, s, from) == Least({i \in from..Len(s) : MatchEnd(pat, s, i) # 0})

\* Pattern.split(s, maxsplit): the pieces between the first maxsplit matches;
\* i is the start of the next match
RECURSIVE re_split_from(_, _, _, _, _)
re_split_from(pat, s, pos, k, i) ==
    IF k = 0 \/ i = 0
    THEN <<SubSeq(s, pos, Len(s))>>
    ELSE <<SubSeq(s, pos, i - 1)>>
             \o re_split_from(pat, s, MatchEnd(pat, s, i), k - 1,
                              re_search(pat, s, MatchEnd(pat, s, i)))

\* a split with no maxsplit: the text is cut at every match
re_split_unbounded(pat, s, maxsplit) ==
    re_split_from(pat, s, 1, Len(s) + 1, re_search(pat, s, 1))

re_split(pat, s, maxsplit) == re_split_from(pat, s, 1, maxsplit, re_search(pat, s, 1))

(***************************************************************************)
(* dict: a sequence of <<key, value>> pairs with unique keys, in insertion *)
(* order                                                                   *)
(***************************************************************************)
DictKeys(d) == {d[i][1] : i \in DOMAIN d}

DictGet(d, k) == LET i == CHOOSE j \in DOMAIN d : d[j][1] = k IN d[i][2]

\* d[k] = v: an existing key keeps its position
DictSet(d, k, v) ==
    IF k \in DictKeys(d)
    THEN [i \in DOMAIN d |-> IF d[i][1] = k THEN <<k, v>> ELSE d[i]]
    ELSE Append(d, <<k, v>>)

\* d.update(e)
RECURSIVE DictUpdate(_, _)
DictUpdate(d, e) ==
    IF e = <<>> THEN d
    ELSE DictUpdate(DictSet(d, e[1][1], e[1][2]), Tail(e))

\* d == e: the same keys with the same values, whatever the order
DictEq(d, e) ==
    /\ DictKeys(d) = DictKeys(e)
    /\ \A k \in DictKeys(d) : DictGet(d, k) = DictGet(e, k)

\* sorted(d.items())
Ord(k) ==
    CASE k = "a" -> 1 [] k = "b" -> 2 [] k = "content" -> 3 [] k = "handler" -> 4
      [] OTHER -> 5

RECURSIVE SortItems(_)
SortItems(d) ==
    IF d = <<>> THEN <<>>
    ELSE LET i == CHOOSE j \in DOMAIN d : \A m \in DOMAIN d : Ord(d[j][1]) <= Ord(d[m][1])
         IN  <<d[i]>> \o SortItems(SubSeq(d, 1, i - 1) \o SubSeq(d, i + 1, Len(d)))

(***************************************************************************)
(* The values load returns, and what a call returns or raises              *)
(***************************************************************************)
DictValue(d) == [type |-> "dict", items |-> d]
NoneValue == [type |-> "NoneType", items |-> <<>>]
ScalarValue == [type |-> "str", items |-> <<>>]

isinstance_dict(v) == v.type = "dict"

\* the exception classes that are ValueError or subclasses of it
ValueErrors == {"ValueError", "JSONDecodeError", "TomlDecodeError"}

(***************************************************************************)
(* The metadata codecs (yaml, json, toml), on the grammar of flat mappings *)
(* from a key to an integer: YAML "a: 1", JSON "a": 1, TOML a = 1          *)
(***************************************************************************)
\* a key is one element of a text, whatever its spelling
Keys == {"a", "b", "content", "handler"}
Values == {"1", "2"}
\* a date, as YAML and TOML write and read it; JSON has none
Date == "D"
DateValues == Values \cup {Date}
\* a value with a python/object tag, and the object an unrestricted Loader
\* constructs from it
PyObject == "!"
YamlValues == DateValues \cup {PyObject}

\* s.split("\n")
RECURSIVE SplitLines(_)
SplitLines(s) ==
    IF \A i \in DOMAIN s : s[i] # LF THEN <<s>>
    ELSE <<SubSeq(s, 1, Least({i \in DOMAIN s : s[i] = LF}) - 1)>>
             \o SplitLines(SubSeq(s, Least({i \in DOMAIN s : s[i] = LF}) + 1, Len(s)))

Without(s, C) == LET Keep(c) == c \notin C IN SelectSeq(s, Keep)

NonBlank(lines) == LET Keep(l) == strip(l) # <<>> IN SelectSeq(lines, Keep)

\* the pairs of a decoded mapping, a later duplicate replacing the value
RECURSIVE PairsToDict(_)
PairsToDict(ps) ==
    IF ps = <<>> THEN <<>>
    ELSE LET p == ps[Len(ps)]
         IN  DictSet(PairsToDict(SubSeq(ps, 1, Len(ps) - 1)), p[1], p[2])

IsYamlEntry(l) ==
    Len(l) = 4 /\ l[1] \in Keys /\ l[2] = ":" /\ l[3] = SP /\ l[4] \in YamlValues

Loaded(v) == [exc |-> "none", value |-> v]
Failed(e) == [exc |-> e, value |-> NoneValue]

\* the document of the non-blank lines ls
yaml_construct(ls, Loader) ==
    IF ls = <<>> THEN Loaded(NoneValue)
    ELSE IF Len(ls) = 1 /\ strip(ls[1]) = <<"{", "}">> THEN Loaded(DictValue(<<>>))
    ELSE IF \A i \in DOMAIN ls : IsYamlEntry(rstrip(ls[i]))
    THEN IF Loader = "SafeLoader" /\ \E i \in DOMAIN ls : ls[i][4] = PyObject
         THEN Failed("YAMLError")
         ELSE Loaded(DictValue(PairsToDict([i \in DOMAIN ls |-> <<ls[i][1], ls[i][4]>>])))
    ELSE IF Len(ls) = 1 /\ Len(strip(ls[1])) = 1
            /\ strip(ls[1])[1] \notin {"-", "+", "{", "}", ":", "=", ",", QUOTE}
    THEN Loaded(ScalarValue)
    ELSE Failed("YAMLError")

\* yaml.load(fm, Loader=...): None for an empty document, a mapping for
\* block entries or for {}, a scalar for one plain word, YAMLError otherwise,
\* and for a tagged object under SafeLoader
yaml_load(fm, Loader) == yaml_construct(NonBlank(SplitLines(fm)), Loader)

IsJsonEntry(e) ==
    /\ Len(e) = 5 /\ e[1] = QUOTE /\ e[2] \in Keys /\ e[3] = QUOTE
    /\ e[4] = ":" /\ e[5] \in Values

\* the members of a JSON object, whitespace removed; <<"fail">> when malformed
RECURSIVE JsonMembers(_)
JsonMembers(b) ==
    IF Len(b) = 5 /\ IsJsonEntry(b) THEN <<<<b[2], b[5]>>>>
    ELSE IF Len(b) > 6 /\ IsJsonEntry(SubSeq(b, 1, 5)) /\ b[6] = ","
    THEN LET r == JsonMembers(SubSeq(b, 7, Len(b)))
         IN  IF r = <<"fail">> THEN r ELSE <<<<b[2], b[5]>>>> \o r
    ELSE <<"fail">>

json_object(t) ==
    IF Len(t) = 2 /\ t = <<"{", "}">> THEN Loaded(DictValue(<<>>))
    ELSE IF Len(t) > 2 /\ t[1] = "{" /\ t[Len(t)] = "}"
            /\ JsonMembers(SubSeq(t, 2, Len(t) - 1)) # <<"fail">>
    THEN Loaded(DictValue(PairsToDict(JsonMembers(SubSeq(t, 2, Len(t) - 1)))))
    ELSE Failed("JSONDecodeError")

\* json.loads(s): the object, or JSONDecodeError (a ValueError)
json_loads(s) == json_object(Without(s, Whitespace))

IsTomlEntry(e) == Len(e) = 3 /\ e[1] \in Keys /\ e[2] = "=" /\ e[3] \in DateValues

toml_table(es) ==
    IF /\ \A i \in DOMAIN es : IsTomlEntry(es[i])
       /\ \A i, j \in DOMAIN es : es[i][1] = es[j][1] => i = j
    THEN Loaded(DictValue([i \in DOMAIN es |-> <<es[i][1], es[i][3]>>]))
    ELSE Failed("TomlDecodeError")

TomlLines(ls) == [i \in DOMAIN ls |-> Without(ls[i], Whitespace)]

\* toml.loads(fm): the table, or TomlDecodeError (a ValueError); a key
\* defined twice is an error
toml_loads(fm) == toml_table(TomlLines(NonBlank(SplitLines(fm))))

YamlLines(items) ==
    Concat([i \in DOMAIN items |-> <<items[i][1], ":", SP, items[i][2], LF>>])

\* yaml.dump(metadata, sort_keys=..., default_flow_style=False)
yaml_dump(d, sort_keys) ==
    IF d = <<>> THEN <<"{", "}", LF>>
    ELSE YamlLines(IF sort_keys THEN SortItems(d) ELSE d)

\* indent of JSONHandler.export
JsonIndent == 4

JsonLines(items) ==
    Concat([i \in DOMAIN items |->
              Rep(SP, JsonIndent)
              \o <<QUOTE, items[i][1], QUOTE, ":", SP, items[i][2]>>
              \o (IF i < Len(items) THEN <<",", LF>> ELSE <<LF>>)])

\* json.dumps(metadata, indent=4, sort_keys=...)
json_dumps(d, sort_keys) ==
    IF d = <<>> THEN <<"{", "}">>
    ELSE <<"{", LF>> \o JsonLines(IF sort_keys THEN SortItems(d) ELSE d) \o <<"}">>

\* toml.dumps(metadata)
toml_dumps(d) ==
    Concat([i \in DOMAIN d |-> <<d[i][1], SP, "=", SP, d[i][2], LF>>])

(***************************************************************************)
(* default_handlers.py: the handlers                                       *)
(***************************************************************************)
None == [cls |-> "NoneType", id |-> 0]

YAMLHandler(n) == [cls |-> "YAMLHandler", id |-> n]
JSONHandler(n) == [cls |-> "JSONHandler", id |-> n]
TOMLHandler(n) == [cls |-> "TOMLHandler", id |-> n]

START_DELIMITER(h) ==
    CASE h.cls = "YAMLHandler" -> <<"-", "-", "-">>
      [] h.cls = "JSONHandler" -> <<>>
      [] h.cls = "TOMLHandler" -> <<"+", "+", "+">>

END_DELIMITER(h) == START_DELIMITER(h)

\* BaseHandler.detect
detect(h, s) == IF re_match(FM_BOUNDARY(h.cls), s) THEN TRUE ELSE FALSE

\* an unpacking that returns the JSON span as it was cut, without its braces
Unpack_unwrapped(h, pieces) ==
    IF Len(pieces) # 3
    THEN [exc |-> "ValueError", fm |-> <<>>, content |-> <<>>]
    ELSE [exc |-> "none", fm |-> pieces[2], content |-> pieces[3]]

\* _, fm, content = pieces: ValueError unless there are exactly three
Unpack(h, pieces) ==
    IF Len(pieces) # 3
    THEN [exc |-> "ValueError", fm |-> <<>>, content |-> <<>>]
    ELSE [exc |-> "none",
          fm |-> IF h.cls = "JSONHandler"
                 THEN <<"{">> \o pieces[2] \o <<"}">>
                 ELSE pieces[2],
          content |-> pieces[3]]

\* BaseHandler.split and JSONHandler.split
split(h, s) == Unpack(h, re_split(FM_BOUNDARY(h.cls), s, MaxSplit))

\* kwargs: a function from option names to values
NoKwargs == <<>>
HasKw(kwargs, k) == k \in DOMAIN kwargs
Pop(kwargs, ks) == [k \in DOMAIN kwargs \ ks |-> kwargs[k]]

\* YAMLHandler.load line 259: kwargs.setdefault("Loader", SafeLoader)
Loader(kwargs) == IF HasKw(kwargs, "Loader") THEN kwargs["Loader"] ELSE "SafeLoader"

\* YAMLHandler.load, JSONHandler.load, TOMLHandler.load with keyword
\* arguments; json.loads and toml.loads take none of them
load_kwargs(h, fm, kwargs) ==
    CASE h.cls = "YAMLHandler" -> yaml_load(fm, Loader(kwargs))
      [] h.cls = "JSONHandler" ->
           IF DOMAIN kwargs # {} THEN Failed("TypeError") ELSE json_loads(fm)
      [] h.cls = "TOMLHandler" ->
           IF DOMAIN kwargs # {} THEN Failed("TypeError") ELSE toml_loads(fm)

\* handler.load(fm), as parse calls it
load(h, fm) == load_kwargs(h, fm, NoKwargs)

\* what export and format return or raise
Exported(s) == [exc |-> "none", value |-> s]
Raised(e) == [exc |-> e, value |-> <<>>]

\* the keyword arguments yaml.dump and json.dumps take; any other is a
\* TypeError
DumpOptions == {"sort_keys"}

\* json.dumps raises TypeError on a value that JSON cannot write
JsonWritable(metadata) == \A i \in DOMAIN metadata : metadata[i][2] \in Values

\* YAMLHandler.export, JSONHandler.export, TOMLHandler.export
export(h, metadata, kwargs) ==
    CASE h.cls = "YAMLHandler" ->
           IF ~(DOMAIN kwargs \subseteq DumpOptions) THEN Raised("TypeError")
           ELSE IF \E i \in DOMAIN metadata : metadata[i][2] = PyObject
           THEN Raised("RepresenterError")
           ELSE Exported(u(strip(yaml_dump(metadata,
                    IF HasKw(kwargs, "sort_keys") THEN kwargs["sort_keys"] ELSE TRUE))))
      [] h.cls = "JSONHandler" ->
           IF ~(DOMAIN kwargs \subseteq DumpOptions) \/ ~JsonWritable(metadata)
           THEN Raised("TypeError")
           ELSE Exported(u(json_dumps(metadata,
                    IF HasKw(kwargs, "sort_keys") THEN kwargs["sort_keys"] ELSE FALSE)))
      [] h.cls = "TOMLHandler" -> Exported(u(toml_dumps(metadata)))

\* a template with the content on the line after the closing delimiter
DEFAULT_POST_TEMPLATE_no_blank(metadata, content, start_delimiter, end_delimiter) ==
    start_delimiter \o <<LF>> \o metadata \o <<LF>> \o end_delimiter
        \o <<LF>> \o content \o <<LF>>

\* DEFAULT_POST_TEMPLATE.format(...)
DEFAULT_POST_TEMPLATE(metadata, content, start_delimiter, end_delimiter) ==
    start_delimiter \o <<LF>> \o metadata \o <<LF>> \o end_delimiter
        \o <<LF, LF>> \o content \o <<LF>>

\* format lines 233-234: the two delimiters, popped from kwargs
DelimiterOptions == {"start_delimiter", "end_delimiter"}
start_delimiter(h, kwargs) ==
    IF HasKw(kwargs, "start_delimiter") THEN kwargs["start_delimiter"] ELSE START_DELIMITER(h)
end_delimiter(h, kwargs) ==
    IF HasKw(kwargs, "end_delimiter") THEN kwargs["end_delimiter"] ELSE END_DELIMITER(h)

\* format lines 238-243: the template filled and stripped
format_filled(p, start, end, metadata) ==
    IF metadata.exc # "none" THEN Raised(metadata.exc)
    ELSE Exported(strip(DEFAULT_POST_TEMPLATE(metadata.value, p.content, start, end)))

\* an export that is handed every option, the delimiters included
format_export_all(h, p, kwargs) == export(h, p.metadata, kwargs)

\* format line 236: export gets the kwargs that are left
format_export(h, p, kwargs) == export(h, p.metadata, Pop(kwargs, DelimiterOptions))

\* BaseHandler.format
format(h, p, kwargs) ==
    format_filled(p, start_delimiter(h, kwargs), end_delimiter(h, kwargs),
                  format_export(h, p, kwargs))


(***************************************************************************)
(* __init__.py                                                             *)
(***************************************************************************)
\* the global registry
handlers == <<YAMLHandler(1), JSONHandler(2), TOMLHandler(3)>>

\* the loop of detect_format from the i-th handler on: the handler it
\* returns and the handlers whose detect it has called
Called(h, r) == [handler |-> r.handler, calls |-> <<h>> \o r.calls]

\* a loop that goes on after a match and keeps the last handler matching
LastOf(h, r) ==
    [handler |-> IF r.handler # None THEN r.handler ELSE h, calls |-> <<h>> \o r.calls]

RECURSIVE detect_loop_last(_, _, _)
detect_loop_last(s, registry, i) ==
    IF i > Len(registry) THEN [handler |-> None, calls |-> <<>>]
    ELSE IF detect(registry[i], s)
    THEN LastOf(registry[i], detect_loop_last(s, registry, i + 1))
    ELSE Called(registry[i], detect_loop_last(s, registry, i + 1))

RECURSIVE detect_loop(_, _, _)
detect_loop(s, registry, i) ==
    IF i > Len(registry) THEN [handler |-> None, calls |-> <<>>]
    ELSE IF detect(registry[i], s)
    THEN [handler |-> registry[i], calls |-> <<registry[i]>>]
    ELSE Called(registry[i], detect_loop(s, registry, i + 1))

detect_format(s, registry) == detect_loop(s, registry, 1).handler

\* parse_text without the strip
parse_text_unstripped(s) == u(s)

\* parse line 75: text = u(text, encoding).strip()
parse_text(s) == strip(u(s))

\* a resolution that detects first and uses the handler given only when no
\* registered handler detects the text
parse_handler_detect_first(t, handler) ==
    IF detect_format(t, handlers) # None THEN detect_format(t, handlers) ELSE handler

\* parse line 81: handler = handler or detect_format(text, handlers), on
\* the text t of line 75
parse_handler(t, handler) ==
    IF handler # None THEN handler ELSE detect_format(t, handlers)

\* parse line 81: the handlers whose detect is called; `or` evaluates
\* detect_format only when no handler is given
parse_detects(t, handler) ==
    IF handler # None THEN <<>> ELSE detect_loop(t, handlers, 1).calls

\* parse_load with the decode inside the try: a ValueError of load is
\* answered with the whole text
parse_load_caught(t, h, defaults, sp, ld) ==
    IF ld.exc \in ValueErrors
    THEN [exc |-> "none", metadata |-> defaults, content |-> t,
          handler |-> h, at |-> "90"]
    ELSE IF ld.exc # "none"
    THEN [exc |-> ld.exc, metadata |-> <<>>, content |-> <<>>,
          handler |-> h, at |-> "93"]
    ELSE [exc |-> "none",
          metadata |-> IF isinstance_dict(ld.value)
                       THEN DictUpdate(defaults, ld.value.items)
                       ELSE defaults,
          content |-> strip(sp.content),
          handler |-> h, at |-> "97"]

\* parse_load with the merge the other way round: defaults over the loaded
parse_load_defaults_win(t, h, defaults, sp, ld) ==
    IF ld.exc # "none"
    THEN [exc |-> ld.exc, metadata |-> <<>>, content |-> <<>>,
          handler |-> h, at |-> "93"]
    ELSE [exc |-> "none",
          metadata |-> IF isinstance_dict(ld.value)
                       THEN DictUpdate(ld.value.items, defaults)
                       ELSE defaults,
          content |-> strip(sp.content),
          handler |-> h, at |-> "97"]

\* parse lines 92-97, after the split sp of the text t: decode and merge
parse_load(t, h, defaults, sp, ld) ==
    IF ld.exc # "none"
    THEN [exc |-> ld.exc, metadata |-> <<>>, content |-> <<>>,
          handler |-> h, at |-> "93"]
    ELSE [exc |-> "none",
          metadata |-> IF isinstance_dict(ld.value)
                       THEN DictUpdate(defaults, ld.value.items)
                       ELSE defaults,
          content |-> strip(sp.content),
          handler |-> h, at |-> "97"]

\* parse_split without the try: the ValueError of split reaches the caller
parse_split_uncaught(t, h, defaults, sp) ==
    IF sp.exc \in ValueErrors
    THEN [exc |-> sp.exc, metadata |-> <<>>, content |-> <<>>,
          handler |-> h, at |-> "87"]
    ELSE parse_load(t, h, defaults, sp, load(h, sp.fm))

\* the defaults as keyword arguments
KwargsOf(d) == [k \in DictKeys(d) |-> DictGet(d, k)]

\* a parse that hands its defaults on to load
parse_split_load_defaults(t, h, defaults, sp) ==
    IF sp.exc \in ValueErrors
    THEN [exc |-> "none", metadata |-> defaults, content |-> t,
          handler |-> h, at |-> "90"]
    ELSE parse_load(t, h, defaults, sp, load_kwargs(h, sp.fm, KwargsOf(defaults)))

\* parse lines 85-90: try split, on ValueError return the whole text
parse_split(t, h, defaults, sp) ==
    IF sp.exc \in ValueErrors
    THEN [exc |-> "none", metadata |-> defaults, content |-> t,
          handler |-> h, at |-> "90"]
    ELSE parse_load(t, h, defaults, sp, load(h, sp.fm))

\* parse lines 77-83 on the text t and the resolved handler h
parse_resolved(t, h, defaults) ==
    IF h = None
    THEN [exc |-> "none", metadata |-> defaults, content |-> t,
          handler |-> h, at |-> "83"]
    ELSE parse_split(t, h, defaults, split(h, t))

parse_stripped(t, handler, defaults) ==
    parse_resolved(t, parse_handler(t, handler), defaults)

\* parse: what it returns or raises, the handler it resolved and the line
\* it returned from
parse(s, handler, defaults) == parse_stripped(parse_text(s), handler, defaults)

\* checks
checks(s) == detect_format(u(s), handlers) # None

\* Post.__init__(self, content, handler=None, **metadata): a metadata key
\* named as a parameter is a TypeError
NoPost == [content |-> <<>>, metadata |-> <<>>, handler |-> None, has_handler |-> FALSE]

PostInit(content, handler, metadata) ==
    IF DictKeys(metadata) \cap {"self", "content", "handler"} # {}
    THEN [exc |-> "TypeError", post |-> NoPost]
    ELSE [exc |-> "none",
          post |-> [content |-> content, metadata |-> metadata,
                    handler |-> handler, has_handler |-> TRUE]]

\* what a method of Post returns or raises
Returns(v) == [exc |-> "none", value |-> v]
KeyError == [exc |-> "KeyError", value |-> <<>>]

\* del d[k]
DictDel(d, k) == LET Keep(e) == e[1] # k IN SelectSeq(d, Keep)

\* Post.__getitem__: self.metadata[name]
Post_getitem(p, name) ==
    IF name \in DictKeys(p.metadata) THEN Returns(DictGet(p.metadata, name)) ELSE KeyError

\* Post.__contains__: item in self.metadata
Post_contains(p, item) == item \in DictKeys(p.metadata)

\* a __setitem__ that keeps the value a key already has
Post_setitem_default(p, name, value) ==
    IF name \in DictKeys(p.metadata) THEN p ELSE [p EXCEPT !.metadata = Append(@, <<name, value>>)]

\* Post.__setitem__: self.metadata[name] = value
Post_setitem(p, name, value) == [p EXCEPT !.metadata = DictSet(@, name, value)]

\* Post.__delitem__: del self.metadata[name]
Post_delitem(p, name) ==
    IF name \in DictKeys(p.metadata)
    THEN [exc |-> "none", post |-> [p EXCEPT !.metadata = DictDel(@, name)]]
    ELSE [exc |-> "KeyError", post |-> p]

\* Post.get: self.metadata.get(key, default)
Post_get(p, key, default) ==
    IF key \in DictKeys(p.metadata) THEN DictGet(p.metadata, key) ELSE default

\* Post.to_dict: d = self.metadata.copy(); d["content"] = self.content
to_dict(p) == DictSet(p.metadata, "content", p.content)

\* loads line 192: handler = handler or detect_format(text, handlers)
loads_handler(s, handler) ==
    IF handler # None THEN handler ELSE detect_format(u(s), handlers)

\* loads line 192 and the parse of line 193: the handlers whose detect is
\* called
loads_detects(s, handler) ==
    IF handler # None THEN <<>>
    ELSE detect_loop(u(s), handlers, 1).calls
             \o parse_detects(parse_text(u(s)), detect_format(u(s), handlers))

\* loads line 194: return Post(content, handler, **metadata)
loads_post(h, r) ==
    IF r.exc # "none" THEN [exc |-> r.exc, post |-> NoPost]
    ELSE PostInit(r.content, h, r.metadata)

loads_with(t, h, defaults) == loads_post(h, parse(t, h, defaults))

\* loads
loads(s, handler, defaults) == loads_with(u(s), loads_handler(s, handler), defaults)

\* getattr(post, "handler", None)
getattr_handler(p) == IF p.has_handler THEN p.handler ELSE None

\* a default that is the JSON handler
or_JSONHandler(x) == IF x # None THEN x ELSE JSONHandler(0)

\* x or YAMLHandler()
or_YAMLHandler(x) == IF x # None THEN x ELSE YAMLHandler(0)

\* a resolution that lets the attached handler win over the argument
dumps_handler_attached_first(p, handler) ==
    IF getattr_handler(p) # None THEN getattr_handler(p) ELSE or_YAMLHandler(handler)

\* dumps lines 289-290: the handler that renders
dumps_handler(p, handler) ==
    IF handler = None THEN or_YAMLHandler(getattr_handler(p)) ELSE handler

\* dumps
dumps(p, handler, kwargs) == format(dumps_handler(p, handler), p, kwargs)


(***************************************************************************)
(* The texts: an optional lead of whitespace, an opening line, a metadata  *)
(* block, an optional closing line and a body, for each format             *)
(***************************************************************************)
\* the most blank lines before the opening line
MaxLead == 1
\* the longest run of - or + in an opening line
MaxRun == 4
\* the longest run of CR before an LF in the body
MaxCR == 3

Classes == {"YAMLHandler", "JSONHandler", "TOMLHandler"}

\* the whitespace before the opening line: blank lines, or one space
Leads == {Rep(LF, n) : n \in 0..MaxLead} \cup {<<SP>>}
EOLs == {<<LF>>, <<CR, LF>>}

Mark(cls) == IF cls = "TOMLHandler" THEN "+" ELSE "-"

Boundary(cls) == IF cls = "JSONHandler" THEN <<"}">> ELSE Rep(Mark(cls), MinRun)

OpenLines(cls) ==
    IF cls = "JSONHandler"
    THEN {<<"{">>, <<"}">>, <<"{", SP>>}
    ELSE {Rep(Mark(cls), n) : n \in (MinRun - 1)..MaxRun}
         \cup {Rep(Mark(cls), MinRun) \o <<SP>>}

Entry(cls, k, v) ==
    CASE cls = "YAMLHandler" -> <<k, ":", SP, v>>
      [] cls = "JSONHandler" -> <<QUOTE, k, QUOTE, ":", SP, v>>
      [] cls = "TOMLHandler" -> <<k, SP, "=", SP, v>>

Comma(cls) == IF cls = "JSONHandler" THEN <<",">> ELSE <<>>

\* the lines of a metadata block: empty, one entry, two entries, a bare
\* word, an entry followed by a bare word
MetaBlocks(cls) ==
    { <<>>,
      <<Entry(cls, "a", "1")>>,
      <<Entry(cls, "b", "2") \o Comma(cls), Entry(cls, "a", "1")>>,
      <<<<"x">>>>,
      <<Entry(cls, "a", "1"), <<"x">>>> }

Bodies(cls) ==
    {<<>>, <<"x">>, Boundary(cls) \o <<LF, "x">>, Boundary(cls) \o <<SP>>}
    \cup {<<"x">> \o Rep(CR, k) \o <<LF, "y">> : k \in 1..MaxCR}

Doc(lead, open, eol, meta, close, body) ==
    lead \o open \o eol
         \o Concat([i \in DOMAIN meta |-> meta[i] \o eol])
         \o (IF close = <<>> THEN <<>> ELSE close \o eol)
         \o body

Texts ==
    UNION {{Doc(lead, open, eol, meta, close, body) :
                lead \in Leads, open \in OpenLines(cls), eol \in EOLs,
                meta \in MetaBlocks(cls), close \in {<<>>, Boundary(cls)},
                body \in Bodies(cls)} : cls \in Classes}

\* the handler arguments and the defaults of a call
HandlerArgs == {None} \cup {handlers[i] : i \in DOMAIN handlers}
Defaults == {<<>>, <<<<"b", "1">>, <<"a", "2">>>>}

\* the registries handed to detect_format
Registries ==
    {handlers, <<>>, <<YAMLHandler(4), YAMLHandler(1)>>,
     <<TOMLHandler(3), JSONHandler(2), YAMLHandler(1), YAMLHandler(4)>>}

(***************************************************************************)
(* The calls on a text                                                     *)
(***************************************************************************)
\* BaseHandler.__init__ lines 181-183: the attributes of an instance
\* constructed with no arguments are those of its class
HandlerAttrs(cls) ==
    [FM_BOUNDARY |-> FM_BOUNDARY(cls),
     START_DELIMITER |-> START_DELIMITER([cls |-> cls, id |-> 0]),
     END_DELIMITER |-> END_DELIMITER([cls |-> cls, id |-> 0])]

\* the registry and its instances after import, and no call in progress
Sequential ==
    /\ global_handlers = handlers
    /\ attrs = [i \in DOMAIN handlers |-> HandlerAttrs(handlers[i].cls)]
    /\ threads = <<>>

Fresh == [op |-> "init"]

Init == text \in Texts /\ post = NoPost /\ ret = Fresh /\ Sequential

\* metadata, content = frontmatter.parse(text, handler=h, **d)
Parse(h, d) ==
    /\ ret.op = "init"
    /\ ret' = [op |-> "parse", handler |-> h, defaults |-> d, r |-> parse(text, h, d),
               calls |-> parse_detects(parse_text(text), h)]
    /\ UNCHANGED <<text, post, shared>>

LoadsDone(h, d, r) ==
    /\ ret' = [op |-> "loads", handler |-> h, defaults |-> d, exc |-> r.exc,
               calls |-> loads_detects(text, h)]
    /\ post' = r.post

\* post = frontmatter.loads(text, handler=h, **d)
Loads(h, d) ==
    /\ ret.op = "init"
    /\ LoadsDone(h, d, loads(text, h, d))
    /\ UNCHANGED <<text, shared>>

ReloadDone(dumped) ==
    ret' = [op |-> "reload", handler |-> ret.handler, defaults |-> ret.defaults,
            dumped |-> dumped,
            r |-> IF dumped.exc # "none" THEN [exc |-> dumped.exc, post |-> NoPost]
                  ELSE loads(dumped.value, None, <<>>)]

\* repost = frontmatter.loads(frontmatter.dumps(post))
Reload ==
    /\ ret.op = "loads" /\ ret.exc = "none"
    /\ ReloadDone(dumps(post, None, NoKwargs))
    /\ UNCHANGED <<text, post, shared>>

\* frontmatter.checks(text)
Checks ==
    /\ ret.op = "init"
    /\ ret' = [op |-> "checks", value |-> checks(text)]
    /\ UNCHANGED <<text, post, shared>>

\* h.detect(text)
Detect(h) ==
    /\ ret.op = "init"
    /\ ret' = [op |-> "detect", handler |-> h, value |-> detect(h, text)]
    /\ UNCHANGED <<text, post, shared>>

\* frontmatter.detect_format(text, registry)
DetectFormat(registry) ==
    /\ ret.op = "init"
    /\ ret' = [op |-> "detect_format", registry |-> registry,
               r |-> detect_loop(text, registry, 1)]
    /\ UNCHANGED <<text, post, shared>>

Next ==
    \/ \E h \in HandlerArgs, d \in Defaults : Parse(h, d)
    \/ \E h \in HandlerArgs, d \in Defaults : Loads(h, d)
    \/ Reload
    \/ Checks
    \/ \E h \in HandlerArgs \ {None} : Detect(h)
    \/ \E registry \in Registries : DetectFormat(registry)

Spec == Init /\ [][Next]_vars

(***************************************************************************)
(* The calls on a post: its handler attribute set or deleted, and dumps    *)
(***************************************************************************)
Contents == {<<>>, <<"x">>, Rep("-", MinRun) \o <<LF, "x">>, <<SP, "x", LF>>}
MetaDicts == {<<>>, <<<<"a", "1">>>>, <<<<"b", "2">>, <<"a", "1">>>>}
KwargSets ==
    {NoKwargs, [sort_keys |-> FALSE],
     [start_delimiter |-> Rep("+", MinRun), end_delimiter |-> Rep("+", MinRun)],
     [start_delimiter |-> Rep("~", MinRun)],
     [sort_keys |-> FALSE, start_delimiter |-> Rep("-", MinRun), end_delimiter |-> <<".", ".", ".">>]}

\* post = Post(content, handler, **metadata)
InitPost ==
    /\ text = <<>>
    /\ post \in {PostInit(c, h, m).post : c \in Contents, h \in HandlerArgs, m \in MetaDicts}
    /\ ret = Fresh
    /\ Sequential

\* post.handler = h
SetHandler(h) ==
    /\ post' = [post EXCEPT !.handler = h, !.has_handler = TRUE]
    /\ ret' = Fresh
    /\ UNCHANGED <<text, shared>>

\* del post.handler
DelHandler ==
    /\ post.has_handler
    /\ post' = [post EXCEPT !.handler = None, !.has_handler = FALSE]
    /\ ret' = Fresh
    /\ UNCHANGED <<text, shared>>

DumpsDone(h, kwargs, by, r) ==
    ret' = [op |-> "dumps", handler |-> h, kwargs |-> kwargs, by |-> by,
            exc |-> r.exc, value |-> r.value]

\* frontmatter.dumps(post, handler=h, **kwargs)
Dumps(h, kwargs) ==
    /\ DumpsDone(h, kwargs, dumps_handler(post, h), dumps(post, h, kwargs))
    /\ UNCHANGED <<text, post, shared>>

NextPost ==
    \/ \E h \in HandlerArgs : SetHandler(h)
    \/ DelHandler
    \/ \E h \in HandlerArgs, kwargs \in KwargSets : Dumps(h, kwargs)

PostSpec == InitPost /\ [][NextPost]_vars

(***************************************************************************)
(* What the claims speak of, stated on the lines of a text                 *)
(***************************************************************************)
\* the first line of a text: the characters before its first LF
FirstLine(s) == SplitLines(s)[1]

\* a line that consists solely of three or more marks and then whitespace
IsRunLine(c, l) ==
    \E n \in MinRun..Len(l) :
        /\ \A i \in 1..n : l[i] = c
        /\ \A i \in (n + 1)..Len(l) : l[i] \in Whitespace

\* a boundary line of the handler class cls
IsBoundaryLine(cls, l) ==
    IF cls = "JSONHandler" THEN l \in {<<"{">>, <<"}">>} ELSE IsRunLine(Mark(cls), l)

\* the first line of s is a boundary line of some registered handler
StartsWithBoundary(s) ==
    \E i \in DOMAIN handlers : IsBoundaryLine(handlers[i].cls, FirstLine(s))

\* the number of boundary lines of cls among the lines of s
BoundaryLines(cls, s) ==
    Cardinality({i \in DOMAIN SplitLines(s) : IsBoundaryLine(cls, SplitLines(s)[i])})

\* the registered handler whose boundary line opens s
Opener(s) ==
    CHOOSE h \in {handlers[i] : i \in DOMAIN handlers} :
        IsBoundaryLine(h.cls, FirstLine(s))

HasCRLF(s) == \E i \in 1..(Len(s) - 1) : s[i] = CR /\ s[i + 1] = LF

PlainParse == ret.op = "parse" /\ ret.handler = None /\ ret.defaults = <<>>

(***************************************************************************)
(* C1: a text with no leading boundary line parses to empty metadata and,  *)
(* as content, the trimmed text                                            *)
(***************************************************************************)
\* C1 as stated: for every text whose first line, after trimming, is no
\* boundary line of a registered handler, parse(text) returns empty metadata
\* and the content text.trim(), verbatim.
C1_Verbatim ==
    (PlainParse /\ ~StartsWithBoundary(strip(text)))
        => /\ ret.r.exc = "none"
           /\ ret.r.metadata = <<>>
           /\ ret.r.content = strip(text)

\* C1 as amended: for every text whose first line, after the replacement of
\* CR LF by LF and trimming, is no boundary line of a registered handler,
\* parse(text) returns empty metadata and, as content, the text with each CR LF
\* replaced by LF, trimmed.
C1_NoFrontMatter ==
    (PlainParse /\ ~StartsWithBoundary(strip(u(text))))
        => /\ ret.r.exc = "none"
           /\ ret.r.metadata = <<>>
           /\ ret.r.content = strip(u(text))

C1_Witness ==
    /\ PlainParse /\ ~StartsWithBoundary(strip(u(text)))
    /\ HasCRLF(text) /\ text[1] \in Whitespace
    /\ ret.r.content = strip(u(text)) /\ ret.r.content # strip(text)

(***************************************************************************)
(* C2: an opening boundary with no closing one is no front matter, and     *)
(* no error                                                                *)
(***************************************************************************)
\* t starts with an opening boundary line and has no second boundary line
UnclosedText(t) ==
    /\ StartsWithBoundary(t)
    /\ BoundaryLines(Opener(t).cls, t) < 2

Unclosed == ret.handler = None /\ UnclosedText(strip(u(text)))

UnclosedRaw == ret.handler = None /\ UnclosedText(text)

\* C2 as stated: for every text that starts with a handler's opening boundary
\* line and has no second boundary line, parse returns (defaults, the trimmed
\* whole text) and raises nothing, and neither does loads.
C2_Verbatim ==
    /\ (ret.op = "parse" /\ UnclosedRaw)
           => /\ ret.r.exc = "none"
              /\ ret.r.metadata = ret.defaults
              /\ ret.r.content = strip(text)
    /\ (ret.op = "loads" /\ UnclosedRaw)
           => /\ ret.exc = "none"
              /\ post.metadata = ret.defaults
              /\ post.content = strip(text)

\* the same of the text loads hands to parse, u(text), on which parse replaces
\* CR LF once more
UnclosedTwice == ret.handler = None /\ UnclosedText(strip(u(u(text))))

\* C2 as amended: for every text that, with each CR LF replaced by LF and
\* trimmed, starts with a handler's opening boundary line and has no second
\* boundary line, parse returns (defaults, that text) and raises nothing; so
\* does loads, for the text parse gets from it after a second replacement;
\* and the ValueError of split never reaches the caller of parse or loads.
C2_UnclosedFallsBack ==
    /\ (ret.op = "parse" /\ Unclosed)
           => /\ ret.r.exc = "none"
              /\ ret.r.metadata = ret.defaults
              /\ ret.r.content = strip(u(text))
    /\ (ret.op = "loads" /\ UnclosedTwice)
           => /\ ret.exc = "none"
              /\ post.metadata = ret.defaults
              /\ post.content = strip(u(u(text)))
    /\ ret.op = "parse" => ret.r.exc # "ValueError"
    /\ ret.op = "loads" => ret.exc # "ValueError"

C2_Witness ==
    /\ ret.op = "parse" /\ Unclosed /\ ret.defaults # <<>>
    /\ split(Opener(strip(u(text))), strip(u(text))).exc = "ValueError"
    /\ Len(SplitLines(text)) > 1
    /\ ret.r.at = "90"

(***************************************************************************)
(* C3: a decode error of load is raised to the caller                      *)
(***************************************************************************)
\* the handler h splits t and its load fails on the metadata span
DecodeFails(h, t) ==
    /\ h # None
    /\ split(h, t).exc = "none"
    /\ load(h, split(h, t).fm).exc # "none"

DecodeError(h, t) == load(h, split(h, t).fm).exc

\* the handler a call resolves for the text t it works on
Resolved(t) == IF ret.handler # None THEN ret.handler ELSE detect_format(t, handlers)

\* the text parse works on when loads calls it, and the handler it then has
LoadsText == strip(u(u(text)))
LoadsResolved ==
    IF loads_handler(text, ret.handler) # None
    THEN loads_handler(text, ret.handler)
    ELSE detect_format(LoadsText, handlers)

\* C3: when the resolved handler finds two boundary lines and its load fails
\* on the metadata span, parse and loads raise that decode error and return
\* no fallback, for each built-in handler, JSON and TOML included, whose
\* decode errors are ValueErrors.
C3_DecodeErrorPropagates ==
    /\ (ret.op = "parse" /\ DecodeFails(Resolved(strip(u(text))), strip(u(text))))
           => /\ ret.r.exc = DecodeError(Resolved(strip(u(text))), strip(u(text)))
              /\ ret.r.at = "93"
    /\ (ret.op = "loads" /\ DecodeFails(LoadsResolved, LoadsText))
           => /\ ret.exc = DecodeError(LoadsResolved, LoadsText)
              /\ post = NoPost

C3_Witness ==
    /\ ret.op = "parse" /\ ret.handler = None
    /\ DecodeFails(Resolved(strip(u(text))), strip(u(text)))
    /\ ret.r.exc = "JSONDecodeError"
    /\ ret.r.exc \in ValueErrors

(***************************************************************************)
(* C4: loads . dumps . loads keeps metadata and content                    *)
(***************************************************************************)
\* C4: for every text that loads parses with non-empty metadata,
\* loads(dumps(loads(t))) has the metadata and the content of loads(t).
C4_RoundTrip ==
    (ret.op = "reload" /\ ret.handler = None /\ ret.defaults = <<>>
       /\ post.metadata # <<>>)
        => /\ ret.r.exc = "none"
           /\ DictEq(ret.r.post.metadata, post.metadata)
           /\ ret.r.post.content = post.content

(***************************************************************************)
(* C5: loaded metadata over the defaults                                   *)
(***************************************************************************)
\* the value load returns in a parse that went past split and load
LoadedValue(t) == load(Resolved(t), split(Resolved(t), t).fm).value

Decoded(t) ==
    /\ Resolved(t) # None
    /\ split(Resolved(t), t).exc = "none"
    /\ load(Resolved(t), split(Resolved(t), t).fm).exc = "none"

\* C5: when load returns a mapping, the metadata parse returns has the keys
\* of the defaults and of the mapping, a key of the mapping with the loaded
\* value and any other key with its default; when load returns no mapping
\* the metadata are the defaults; either way the content is the trimmed span
\* after the second boundary.
C5_On(t) ==
    /\ ret.r.exc = "none"
    /\ ret.r.content = strip(split(Resolved(t), t).content)
    /\ IF LoadedValue(t).type = "dict"
       THEN /\ DictKeys(ret.r.metadata)
                 = DictKeys(ret.defaults) \cup DictKeys(LoadedValue(t).items)
            /\ \A k \in DictKeys(LoadedValue(t).items) :
                   DictGet(ret.r.metadata, k) = DictGet(LoadedValue(t).items, k)
            /\ \A k \in DictKeys(ret.defaults) \ DictKeys(LoadedValue(t).items) :
                   DictGet(ret.r.metadata, k) = DictGet(ret.defaults, k)
       ELSE ret.r.metadata = ret.defaults

C5_DefaultsMerge ==
    (ret.op = "parse" /\ Decoded(strip(u(text)))) => C5_On(strip(u(text)))

C5_Witness ==
    /\ ret.op = "parse" /\ Decoded(strip(u(text)))
    /\ ret.defaults = <<<<"b", "1">>, <<"a", "2">>>>
    /\ LoadedValue(strip(u(text))).items = <<<<"a", "1">>>>
    /\ DictGet(ret.r.metadata, "a") = "1" /\ DictGet(ret.r.metadata, "b") = "1"

(***************************************************************************)
(* C6: the handler dumps renders with                                      *)
(***************************************************************************)
\* the post has a handler attribute that is not None
Attached(p) == p.has_handler /\ p.handler # None

\* C6: dumps renders with the handler argument when one is given, otherwise
\* with post.handler when it is set, otherwise with a YAML handler, also when
\* post.handler is None or deleted; hence dumps with a YAML handler argument,
\* dumps of a post whose handler is a YAML handler and dumps of a post whose
\* handler is None or deleted return the same text.
C6_HandlerResolution ==
    ret.op = "dumps" =>
        /\ ret.handler # None
               => ret.by = ret.handler /\ ret.value = format(ret.handler, post, ret.kwargs).value
        /\ (ret.handler = None /\ Attached(post))
               => ret.by = post.handler /\ ret.value = format(post.handler, post, ret.kwargs).value
        /\ (ret.handler = None /\ ~Attached(post))
               => ret.by.cls = "YAMLHandler"
        /\ (\/ ret.handler.cls = "YAMLHandler"
            \/ ret.handler = None /\ Attached(post) /\ post.handler.cls = "YAMLHandler"
            \/ ret.handler = None /\ ~Attached(post))
               => ret.value = format(YAMLHandler(0), post, ret.kwargs).value

C6_Witness ==
    /\ ret.op = "dumps" /\ ret.handler.cls = "JSONHandler"
    /\ Attached(post) /\ post.handler.cls = "TOMLHandler"
    /\ post.metadata # <<>>
    /\ ret.value = format(ret.handler, post, ret.kwargs).value
    /\ ret.value # format(post.handler, post, ret.kwargs).value

(***************************************************************************)
(* C7: the handler loads attaches                                          *)
(***************************************************************************)
\* the handler parse resolves in the call loads makes
ParseResolved == parse(u(text), loads_handler(text, ret.handler), ret.defaults).handler

\* C7: the handler of the Post loads returns is the explicit handler when one
\* is given and otherwise the handler parse resolved for the text, None only
\* when parse resolved none.
C7_AttachesResolved ==
    (ret.op = "loads" /\ ret.exc = "none")
        => /\ ret.handler # None => post.handler = ret.handler
           /\ ret.handler = None => post.handler = ParseResolved

(***************************************************************************)
(* C8: detect_format returns the first handler that detects                *)
(***************************************************************************)
\* the i-th handler of the registry is the first whose detect is true
FirstDetecting(registry, i) ==
    /\ detect(registry[i], text)
    /\ \A j \in 1..(i - 1) : ~detect(registry[j], text)

\* C8: detect_format returns the first handler, in registry order, whose
\* detect is true, having called detect on the handlers up to that one and on
\* no other, and None when no detect is true; with the built-in registry a
\* first line { gives the JSON handler, --- the YAML handler and +++ the TOML
\* handler.
C8_FirstInOrder ==
    ret.op = "detect_format" =>
        /\ \A i \in DOMAIN ret.registry :
               FirstDetecting(ret.registry, i)
                   => /\ ret.r.handler = ret.registry[i]
                      /\ ret.r.calls = SubSeq(ret.registry, 1, i)
        /\ (\A i \in DOMAIN ret.registry : ~detect(ret.registry[i], text))
               => ret.r.handler = None /\ ret.r.calls = ret.registry
        /\ ret.registry = handlers =>
               /\ FirstLine(text) = <<"{">> => ret.r.handler = JSONHandler(2)
               /\ FirstLine(text) = Rep("-", MinRun) => ret.r.handler = YAMLHandler(1)
               /\ FirstLine(text) = Rep("+", MinRun) => ret.r.handler = TOMLHandler(3)

C8_Witness ==
    /\ ret.op = "detect_format"
    /\ ret.registry = <<TOMLHandler(3), JSONHandler(2), YAMLHandler(1), YAMLHandler(4)>>
    /\ FirstDetecting(ret.registry, 3)
    /\ detect(ret.registry[4], text)
    /\ ret.r.handler = YAMLHandler(1)
    /\ ret.r.calls = <<TOMLHandler(3), JSONHandler(2), YAMLHandler(1)>>

(***************************************************************************)
(* C9: detect and leading whitespace                                       *)
(***************************************************************************)
\* C9: detect returns true exactly when the text, its leading whitespace
\* trimmed, begins with a boundary line of the handler.
C9_DetectTrimsLead ==
    ret.op = "detect" =>
        (ret.value <=> IsBoundaryLine(ret.handler.cls, FirstLine(lstrip(text))))

(***************************************************************************)
(* C10: checks and parse                                                   *)
(***************************************************************************)
\* parse splits a metadata span off the text: it goes past split
ParseSplits(s) == parse(s, None, <<>>).at \in {"93", "97"}

\* C10: checks(text) is True exactly when parse(text) splits a metadata span
\* off the text.
C10_ChecksAgreesWithParse ==
    ret.op = "checks" => (ret.value <=> ParseSplits(text))

(***************************************************************************)
(* The JSON handler on texts made of brace lines, entries and body lines   *)
(***************************************************************************)
\* the most lines after the opening line
MaxLines == 4

JsonLineSet == {<<"{">>, <<"}">>, Entry("JSONHandler", "a", "1"), <<>>, <<"x">>}

RECURSIVE LineSeqs(_)
LineSeqs(n) ==
    IF n = 0 THEN {<<>>}
    ELSE LineSeqs(n - 1)
         \cup {Append(q, l) : q \in {r \in LineSeqs(n - 1) : Len(r) = n - 1},
                                l \in JsonLineSet}

\* "\n".join(lines)
RECURSIVE JoinLines(_)
JoinLines(lines) ==
    IF lines = <<>> THEN <<>>
    ELSE IF Len(lines) = 1 THEN lines[1]
    ELSE lines[1] \o <<LF>> \o JoinLines(Tail(lines))

JsonTexts == {JoinLines(<<<<"{">>>> \o q) : q \in LineSeqs(MaxLines)}

InitJson == text \in JsonTexts /\ post = NoPost /\ ret = Fresh /\ Sequential

\* JSONHandler().split(text)
SplitJson ==
    /\ ret.op = "init"
    /\ ret' = [op |-> "split", handler |-> JSONHandler(2), r |-> split(JSONHandler(2), text)]
    /\ UNCHANGED <<text, post, shared>>

\* frontmatter.parse(text)
ParseJson ==
    /\ ret.op = "init"
    /\ ret' = [op |-> "parse", handler |-> None, defaults |-> <<>>,
               r |-> parse(text, None, <<>>)]
    /\ UNCHANGED <<text, post, shared>>

NextJson == SplitJson \/ ParseJson

JsonSpec == InitJson /\ [][NextJson]_vars

(***************************************************************************)
(* C11: the JSON span is cut between two brace lines and wrapped in braces *)
(***************************************************************************)
\* the lines after the first that consist solely of one of the characters C
LaterLines(s, C) ==
    {j \in 2..Len(SplitLines(s)) : \E c \in C : SplitLines(s)[j] = <<c>>}

\* the text between the first line and the j-th, and the text after the j-th
BetweenLines(s, j) ==
    <<LF>> \o Concat([k \in 1..(j - 2) |-> SplitLines(s)[k + 1] \o <<LF>>])
AfterLine(s, j) ==
    Concat([k \in 1..(Len(SplitLines(s)) - j) |-> <<LF>> \o SplitLines(s)[j + k]])

SplitsAt(s, j) ==
    /\ ret.r.exc = "none"
    /\ ret.r.fm = <<"{">> \o BetweenLines(s, j) \o <<"}">>
    /\ ret.r.content = AfterLine(s, j)

JsonExample == JoinLines(<<<<"{">>, Entry("JSONHandler", "a", "1"), <<"}">>, <<>>, <<"x">>>>)

ParsesExample ==
    (ret.op = "parse" /\ text = JsonExample)
        => /\ ret.r.exc = "none"
           /\ ret.r.metadata = <<<<"a", "1">>>>
           /\ ret.r.content = <<"x">>

\* C11 as stated: for a text whose first line is { and that has a later line
\* consisting solely of }, split of the JSON handler returns { + the text
\* between the first line and the first such line + } and, as content,
\* everything after that line; parse of the example yields {"a": 1} and the
\* body.
C11_ClosingBrace ==
    /\ (ret.op = "split" /\ LaterLines(text, {"}"}) # {})
           => SplitsAt(text, Least(LaterLines(text, {"}"})))
    /\ ParsesExample

\* C11 as amended: for a text whose first line is { and that has a later line
\* consisting solely of { or of }, split of the JSON handler returns { + the
\* text between the first line and the first such line + } and, as content,
\* everything after that line; parse of the example yields {"a": 1} and the
\* body.
C11_BraceRewrap ==
    /\ (ret.op = "split" /\ LaterLines(text, {"{", "}"}) # {})
           => SplitsAt(text, Least(LaterLines(text, {"{", "}"})))
    /\ ParsesExample

C11_Witness ==
    /\ ret.op = "split" /\ text = JsonExample
    /\ ret.r.fm = <<"{", LF>> \o Entry("JSONHandler", "a", "1") \o <<LF, "}">>
    /\ ret.r.content = <<LF, LF, "x">>

(***************************************************************************)
(* C12: what format returns                                                *)
(***************************************************************************)
\* the delimiters of a dumps call: the option when given, else the handler's
StartOf(h, kwargs) ==
    IF "start_delimiter" \in DOMAIN kwargs THEN kwargs["start_delimiter"] ELSE START_DELIMITER(h)
EndOf(h, kwargs) ==
    IF "end_delimiter" \in DOMAIN kwargs THEN kwargs["end_delimiter"] ELSE END_DELIMITER(h)

\* the options other than the two delimiters
OtherOptions(kwargs) == [k \in DOMAIN kwargs \ {"start_delimiter", "end_delimiter"} |-> kwargs[k]]

\* C12: format returns the trimmed concatenation of the start delimiter, LF,
\* the exported metadata, LF, the end delimiter, two LF and the content, the
\* delimiters being the handler's own unless the options give them.
C12_FormatLayout ==
    (ret.op = "dumps" /\ ret.exc = "none")
        => ret.value
             = strip(StartOf(ret.by, ret.kwargs) \o <<LF>>
                     \o export(ret.by, post.metadata, OtherOptions(ret.kwargs)).value
                     \o <<LF>> \o EndOf(ret.by, ret.kwargs) \o <<LF, LF>> \o post.content)

C12_Witness ==
    /\ ret.op = "dumps" /\ ret.exc = "none"
    /\ ret.by.cls = "JSONHandler" /\ ret.kwargs = NoKwargs
    /\ post.content = <<SP, "x", LF>> /\ post.metadata # <<>>
    /\ ret.value[1] = "{" /\ ret.value[Len(ret.value)] = "x"

(***************************************************************************)
(* C13: the JSON form                                                      *)
(***************************************************************************)
\* C13: a post rendered with the JSON handler and its own delimiters is the
\* JSON object text, one blank line and the content, with no delimiter lines.
C13_JsonOneBlankLine ==
    (ret.op = "dumps" /\ ret.exc = "none" /\ ret.by.cls = "JSONHandler"
       /\ DOMAIN ret.kwargs \cap {"start_delimiter", "end_delimiter"} = {})
        => ret.value
             = strip(export(ret.by, post.metadata, ret.kwargs).value
                     \o <<LF, LF>> \o post.content)

(***************************************************************************)
(* C14: the delimiter options                                              *)
(***************************************************************************)
\* the line of the rendering that closes the metadata block: the one after
\* the opening line and the lines of the exported metadata
ClosingLine(value, exported) == SplitLines(value)[Len(SplitLines(exported)) + 2]

\* C14: dumps with the option start_delimiter emits it as the line that opens
\* the metadata block, and with end_delimiter emits it as the line that
\* closes the block, whatever handler renders; the two options do not reach
\* export, so that the call raises nothing.
C14_DelimiterOptions ==
    (ret.op = "dumps" /\ DOMAIN ret.kwargs \cap {"start_delimiter", "end_delimiter"} # {})
        => /\ ret.exc = "none"
           /\ "start_delimiter" \in DOMAIN ret.kwargs
                  => SplitLines(ret.value)[1] = ret.kwargs["start_delimiter"]
           /\ "end_delimiter" \in DOMAIN ret.kwargs
                  => ClosingLine(ret.value,
                                 export(ret.by, post.metadata, OtherOptions(ret.kwargs)).value)
                         = ret.kwargs["end_delimiter"]

C14_Witness ==
    /\ ret.op = "dumps" /\ ret.exc = "none"
    /\ ret.handler = None /\ Attached(post) /\ post.handler.cls = "JSONHandler"
    /\ Len(post.metadata) = 2 /\ post.content = <<"x">>
    /\ "start_delimiter" \in DOMAIN ret.kwargs /\ "end_delimiter" \in DOMAIN ret.kwargs
    /\ ret.kwargs["end_delimiter"] = Rep("+", MinRun)
    /\ SplitLines(ret.value)[1] = Rep("+", MinRun)
    /\ SplitLines(ret.value)[6] = Rep("+", MinRun)

(***************************************************************************)
(* C15: the order of the keys                                              *)
(***************************************************************************)
\* the metadata keys in the order in which a rendering has them
EmittedKeys(value) == LET IsKey(c) == c \in Keys IN SelectSeq(value, IsKey)

KeysOf(d) == [i \in DOMAIN d |-> d[i][1]]

\* C15: dumps with sort_keys=False emits the keys in the insertion order of
\* the metadata, and dumps without the option emits them sorted, whichever
\* built-in handler renders.
C15_KeyOrder ==
    (ret.op = "dumps" /\ ret.exc = "none")
        => /\ ("sort_keys" \in DOMAIN ret.kwargs /\ ret.kwargs["sort_keys"] = FALSE)
                  => EmittedKeys(ret.value) = KeysOf(post.metadata)
           /\ "sort_keys" \notin DOMAIN ret.kwargs
                  => EmittedKeys(ret.value) = KeysOf(SortItems(post.metadata))

(***************************************************************************)
(* parse and loads on YAML front matter with tagged values, the caller     *)
(* naming a Loader among the defaults                                      *)
(***************************************************************************)
TaggedBlocks ==
    { <<Entry("YAMLHandler", "a", PyObject)>>,
      <<Entry("YAMLHandler", "a", "1"), Entry("YAMLHandler", "b", PyObject)>>,
      <<Entry("YAMLHandler", "b", PyObject), Entry("YAMLHandler", "a", PyObject)>>,
      <<Entry("YAMLHandler", "a", "1")>>,
      <<>> }

TaggedTexts ==
    {Doc(lead, Boundary("YAMLHandler"), eol, meta, Boundary("YAMLHandler"), body) :
        lead \in {<<>>, <<LF>>}, eol \in EOLs, meta \in TaggedBlocks,
        body \in {<<>>, <<"x">>}}

LoaderDefaults ==
    {<<>>, <<<<"Loader", "UnsafeLoader">>>>,
     <<<<"Loader", "FullLoader">>, <<"a", "2">>>>}

InitSafe == text \in TaggedTexts /\ post = NoPost /\ ret = Fresh /\ Sequential

NextSafe ==
    \/ \E h \in {None, YAMLHandler(1)}, d \in LoaderDefaults : Parse(h, d)
    \/ \E h \in {None, YAMLHandler(1)}, d \in LoaderDefaults : Loads(h, d)

SafeSpec == InitSafe /\ [][NextSafe]_vars

(***************************************************************************)
(* C16: the YAML handler decodes with the safe loader                      *)
(***************************************************************************)
\* the metadata span of t, as the YAML handler cuts it, has a tagged value
HasTagged(t) ==
    /\ split(YAMLHandler(1), t).exc = "none"
    /\ \E l \in Keys : \E i \in DOMAIN SplitLines(split(YAMLHandler(1), t).fm) :
           SplitLines(split(YAMLHandler(1), t).fm)[i] = Entry("YAMLHandler", l, PyObject)

NoObject(metadata) == \A i \in DOMAIN metadata : metadata[i][2] # PyObject

\* C16: whatever text and defaults parse and loads get, a Loader among the
\* defaults included, the YAML handler decodes with the safe loader: front
\* matter with a tagged object is a YAMLError and no metadata parse or loads
\* returns holds an object constructed from the front matter.
C16_SafeLoader ==
    /\ ret.op = "parse"
           => /\ ret.r.exc = "none" => NoObject(ret.r.metadata)
              /\ (ret.r.handler.cls = "YAMLHandler" /\ HasTagged(strip(u(text))))
                     => ret.r.exc = "YAMLError"
    /\ ret.op = "loads"
           => /\ NoObject(post.metadata)
              /\ (LoadsResolved.cls = "YAMLHandler" /\ HasTagged(LoadsText))
                     => ret.exc = "YAMLError"

C16_Witness ==
    /\ ret.op = "parse" /\ ret.handler = None
    /\ DictKeys(ret.defaults) = {"Loader"}
    /\ HasTagged(strip(u(text)))
    /\ ret.r.handler = YAMLHandler(1)
    /\ ret.r.exc = "YAMLError" /\ ret.r.at = "93"

(***************************************************************************)
(* loads, then dumps and loads again, on front matter of each format, the  *)
(* defaults holding a date                                                 *)
(***************************************************************************)
Opening(cls) == IF cls = "JSONHandler" THEN <<"{">> ELSE Boundary(cls)

RoundTexts ==
    UNION {{Doc(lead, Opening(cls), <<LF>>, meta, close, body) :
                lead \in {<<>>, <<LF>>},
                meta \in MetaBlocks(cls)
                             \cup {<<Entry(cls, k, "1")>> : k \in {"content", "handler"}},
                close \in {<<>>, Boundary(cls)}, body \in {<<>>, <<"x">>}} :
           cls \in Classes}

RoundDefaults == {<<>>, <<<<"b", Date>>>>, <<<<"b", "1">>, <<"a", "2">>>>}

InitRound == text \in RoundTexts /\ post = NoPost /\ ret = Fresh /\ Sequential

NextRound ==
    \/ \E h \in HandlerArgs, d \in RoundDefaults : Loads(h, d)
    \/ Reload

RoundSpec == InitRound /\ [][NextRound]_vars

Renderer(p) == IF Attached(p) THEN p.handler ELSE YAMLHandler(0)

Detected == detect_format(u(text), handlers)

\* C18: for every text whose front matter a built-in handler detects, the
\* post loads returns has that handler, and loads of its rendering has the
\* same handler.
C18_HandlerKept ==
    (ret.op = "reload" /\ ret.handler = None /\ Detected # None
       /\ ret.dumped.exc = "none")
        => /\ post.handler = Detected
           /\ ret.r.exc = "none"
           /\ ret.r.post.handler = post.handler

(***************************************************************************)
(* The calls on a post as a mapping: keys set, deleted and looked up, the  *)
(* content and the handler assigned, to_dict                               *)
(***************************************************************************)
ItemKeys == {"a", "b", "content"}
ItemValues == {<<"1">>, <<"2">>}
ItemContents == {<<>>, <<"x">>}
ItemHandlers == {None, YAMLHandler(1)}

\* post = Post(content, handler, **metadata)
InitItem ==
    /\ text = <<>>
    /\ post \in {PostInit(c, h, m).post :
                    c \in ItemContents, h \in ItemHandlers,
                    m \in {<<>>, <<<<"a", <<"1">>>>>>}}
    /\ ret = Fresh
    /\ Sequential

\* post[k] = v
SetItem(k, v) ==
    /\ post' = Post_setitem(post, k, v)
    /\ ret' = [op |-> "setitem", key |-> k, value |-> v, exc |-> "none", before |-> post]
    /\ UNCHANGED <<text, shared>>

DelItemDone(k, r) ==
    /\ post' = r.post
    /\ ret' = [op |-> "delitem", key |-> k, exc |-> r.exc, before |-> post]

\* del post[k]
DelItem(k) ==
    /\ DelItemDone(k, Post_delitem(post, k))
    /\ UNCHANGED <<text, shared>>

GetItemDone(k, r) ==
    ret' = [op |-> "getitem", key |-> k, exc |-> r.exc, value |-> r.value, before |-> post]

\* post[k]
GetItem(k) ==
    /\ GetItemDone(k, Post_getitem(post, k))
    /\ UNCHANGED <<text, post, shared>>

\* post.get(k, default)
Get(k, default) ==
    /\ ret' = [op |-> "get", key |-> k, default |-> default, exc |-> "none",
               value |-> Post_get(post, k, default), before |-> post]
    /\ UNCHANGED <<text, post, shared>>

\* k in post
Contains(k) ==
    /\ ret' = [op |-> "contains", key |-> k, exc |-> "none",
               value |-> Post_contains(post, k), before |-> post]
    /\ UNCHANGED <<text, post, shared>>

\* post.content = c
SetContent(c) ==
    /\ post' = [post EXCEPT !.content = c]
    /\ ret' = [op |-> "setcontent", exc |-> "none", before |-> post]
    /\ UNCHANGED <<text, shared>>

\* post.handler = h
AssignHandler(h) ==
    /\ post' = [post EXCEPT !.handler = h, !.has_handler = TRUE]
    /\ ret' = [op |-> "sethandler", exc |-> "none", before |-> post]
    /\ UNCHANGED <<text, shared>>

\* post.to_dict()
ToDict ==
    /\ ret' = [op |-> "to_dict", exc |-> "none", value |-> to_dict(post), before |-> post]
    /\ UNCHANGED <<text, post, shared>>

NextItem ==
    \/ \E k \in ItemKeys, v \in ItemValues : SetItem(k, v)
    \/ \E k \in ItemKeys : DelItem(k)
    \/ \E k \in ItemKeys : GetItem(k)
    \/ \E k \in ItemKeys, default \in ItemValues : Get(k, default)
    \/ \E k \in ItemKeys : Contains(k)
    \/ \E c \in ItemContents : SetContent(c)
    \/ \E h \in ItemHandlers : AssignHandler(h)
    \/ ToDict

ItemSpec == InitItem /\ [][NextItem]_vars

(***************************************************************************)
(* C19: to_dict                                                            *)
(***************************************************************************)
\* C19: whatever keys were set and deleted and whatever content assigned,
\* to_dict returns a mapping in which every metadata key has its metadata
\* value and the key content has the content of the post.
C19_ToDict ==
    ret.op = "to_dict" =>
        /\ \A k \in DictKeys(post.metadata) :
               k \in DictKeys(ret.value) /\ DictGet(ret.value, k) = DictGet(post.metadata, k)
        /\ "content" \in DictKeys(ret.value)
        /\ DictGet(ret.value, "content") = post.content

(***************************************************************************)
(* C20: the post as a mapping                                              *)
(***************************************************************************)
HasKey(p, k) == \E i \in DOMAIN p.metadata : p.metadata[i][1] = k
ValueOf(p, k) == p.metadata[CHOOSE i \in DOMAIN p.metadata : p.metadata[i][1] = k][2]

\* the keys other than k are in q as they are in p
OthersKept(p, q, k) ==
    \A j \in ItemKeys \ {k} :
        /\ HasKey(q, j) <=> HasKey(p, j)
        /\ HasKey(p, j) => ValueOf(q, j) = ValueOf(p, j)

\* C20: setting a key makes its lookup return the value set, and deleting a
\* key makes its lookup fail, every other key being as before, so that a
\* lookup returns the value most recently set and not deleted since; a lookup
\* or a deletion of an absent key fails with KeyError and leaves the post
\* unchanged; get returns the default where the lookup fails; k in post is
\* true exactly when the lookup succeeds; none of these, nor the assignment
\* of the handler, changes the content, and the assignment of the handler
\* does not change the metadata.
C20_Mapping ==
    /\ ret.op = "setitem"
           => /\ HasKey(post, ret.key) /\ ValueOf(post, ret.key) = ret.value
              /\ OthersKept(ret.before, post, ret.key)
    /\ ret.op = "delitem"
           => IF HasKey(ret.before, ret.key)
              THEN /\ ret.exc = "none" /\ ~HasKey(post, ret.key)
                   /\ OthersKept(ret.before, post, ret.key)
              ELSE ret.exc = "KeyError" /\ post = ret.before
    /\ ret.op = "getitem"
           => /\ post = ret.before
              /\ IF HasKey(post, ret.key)
                 THEN ret.exc = "none" /\ ret.value = ValueOf(post, ret.key)
                 ELSE ret.exc = "KeyError"
    /\ ret.op = "get"
           => /\ post = ret.before /\ ret.exc = "none"
              /\ ret.value = IF HasKey(post, ret.key) THEN ValueOf(post, ret.key)
                             ELSE ret.default
    /\ ret.op = "contains"
           => post = ret.before /\ (ret.value <=> HasKey(post, ret.key))
    /\ ret.op = "sethandler" => post.metadata = ret.before.metadata
    /\ ret.op \in {"setitem", "delitem", "getitem", "get", "contains", "sethandler"}
           => post.content = ret.before.content

C20_Witness ==
    /\ ret.op = "setitem" /\ ret.key = "a" /\ ret.value = <<"2">>
    /\ HasKey(ret.before, "a") /\ ValueOf(ret.before, "a") = <<"1">>
    /\ HasKey(ret.before, "b") /\ ~HasKey(ret.before, "content")
    /\ ValueOf(post, "a") = <<"2">> /\ post.content = <<"x">>

(***************************************************************************)
(* split and detect of the YAML and TOML handlers on texts made of         *)
(* boundary lines, lines that resemble one, blank lines and body lines     *)
(***************************************************************************)
\* the most lines of a text
MaxRows == 4

\* the lines that vary a boundary line of cls: trailing whitespace, a longer
\* run, a shorter run, an indented run, text after the run, text before it,
\* and a line of whitespace
Variants(cls) ==
    {Rep(Mark(cls), MinRun) \o <<SP>>, Rep(Mark(cls), MinRun + 1),
     Rep(Mark(cls), MinRun - 1), <<SP>> \o Rep(Mark(cls), MinRun),
     Rep(Mark(cls), MinRun) \o <<"x">>, <<"x">> \o Rep(Mark(cls), MinRun),
     <<SP>>}

RowSet(cls, v) == {Rep(Mark(cls), MinRun), <<>>, <<"x">>, v}

\* the sequences of at most n lines of S
RECURSIVE RowSeqs(_, _)
RowSeqs(S, n) ==
    IF n = 0 THEN {<<>>}
    ELSE RowSeqs(S, n - 1)
         \cup {Append(q, l) : q \in {r \in RowSeqs(S, n - 1) : Len(r) = n - 1}, l \in S}

SplitTexts ==
    UNION {UNION {{JoinLines(q) : q \in RowSeqs(RowSet(cls, v), MaxRows)} :
                      v \in Variants(cls)} :
               cls \in {"YAMLHandler", "TOMLHandler"}}

InitSplit == text \in SplitTexts /\ post = NoPost /\ ret = Fresh /\ Sequential

\* fm, content = h.split(text)
Split(h) ==
    /\ ret.op = "init"
    /\ ret' = [op |-> "split", handler |-> h, r |-> split(h, text)]
    /\ UNCHANGED <<text, post, shared>>

NextSplit ==
    \/ \E h \in {YAMLHandler(1), TOMLHandler(3)} : Split(h)
    \/ \E h \in {YAMLHandler(1), TOMLHandler(3)} : Detect(h)

SplitSpec == InitSplit /\ [][NextSplit]_vars

(***************************************************************************)
(* C21: split cuts at the first two boundary lines                         *)
(***************************************************************************)
\* the lines of s that are boundary lines of cls, the first and the second
BoundaryRows(cls, s) ==
    {i \in DOMAIN SplitLines(s) : IsBoundaryLine(cls, SplitLines(s)[i])}
FirstRow(cls, s) == Least(BoundaryRows(cls, s))
SecondRow(cls, s) == Least(BoundaryRows(cls, s) \ {FirstRow(cls, s)})

\* the text between the lines i and j, and the text after the line j,
\* line breaks included
RowsBetween(s, i, j) ==
    <<LF>> \o Concat([k \in 1..(j - i - 1) |-> SplitLines(s)[i + k] \o <<LF>>])
RowsAfter(s, j) ==
    Concat([k \in 1..(Len(SplitLines(s)) - j) |-> <<LF>> \o SplitLines(s)[j + k]])

\* the number of lines of whitespace directly after the line i
IsBlankRow(l) == \A i \in DOMAIN l : l[i] \in Whitespace
RECURSIVE BlankRun(_, _)
BlankRun(s, i) ==
    IF i < Len(SplitLines(s)) /\ IsBlankRow(SplitLines(s)[i + 1])
    THEN 1 + BlankRun(s, i + 1) ELSE 0

BaseSplit == ret.op = "split" /\ ret.handler.cls \in {"YAMLHandler", "TOMLHandler"}

SplitFails == ret.r.exc = "ValueError" /\ ret.r.fm = <<>> /\ ret.r.content = <<>>

\* C21 as stated: split of the YAML and TOML handlers cuts at the first two
\* boundary lines of the text: the metadata span is exactly the text between
\* them and the content span exactly everything after the second, later
\* boundary lines included; with fewer than two boundary lines split raises
\* and returns nothing.
C21_ExactSpans ==
    BaseSplit =>
        IF Cardinality(BoundaryRows(ret.handler.cls, text)) >= 2
        THEN /\ ret.r.exc = "none"
             /\ ret.r.fm = RowsBetween(text, FirstRow(ret.handler.cls, text),
                                       SecondRow(ret.handler.cls, text))
             /\ ret.r.content = RowsAfter(text, SecondRow(ret.handler.cls, text))
        ELSE SplitFails

\* C21 as amended: split of the YAML and TOML handlers cuts at the first two
\* boundary lines of the text, each taken together with the lines of
\* whitespace that directly follow it: the metadata span is the text between
\* the first boundary line and the second less the lines of whitespace
\* directly after the first, the content span is everything after the second
\* less the lines of whitespace directly after it, later boundary lines
\* included; with fewer than two boundary lines split raises and returns
\* nothing.
C21_SpansLessBlankRows ==
    BaseSplit =>
        IF Cardinality(BoundaryRows(ret.handler.cls, text)) >= 2
        THEN /\ ret.r.exc = "none"
             /\ ret.r.fm =
                    RowsBetween(text,
                                FirstRow(ret.handler.cls, text)
                                    + BlankRun(text, FirstRow(ret.handler.cls, text)),
                                SecondRow(ret.handler.cls, text))
             /\ ret.r.content =
                    RowsAfter(text,
                              SecondRow(ret.handler.cls, text)
                                  + BlankRun(text, SecondRow(ret.handler.cls, text)))
        ELSE SplitFails

C21_Witness ==
    /\ BaseSplit /\ ret.handler.cls = "YAMLHandler"
    /\ Cardinality(BoundaryRows("YAMLHandler", text)) >= 3
    /\ BlankRun(text, SecondRow("YAMLHandler", text)) = 1
    /\ ret.r.exc = "none"
    /\ ret.r.content = <<LF>> \o Rep("-", MinRun)

(***************************************************************************)
(* C22: which lines are boundary lines of the YAML and TOML handlers       *)
(***************************************************************************)
\* the lines of s after the line i and before the line j
RowsFrom(s, i, j) == [k \in 1..(j - i - 1) |-> SplitLines(s)[i + k]]

\* C22: for the YAML and TOML handlers detect is true exactly when the first
\* line of the text consists solely of three or more marks from the first
\* column on and then whitespace; split succeeds exactly when two lines of
\* the text are such lines, and every other line with text, a shorter run,
\* an indented run and a run with text before or after it included, is left
\* in the span it lies in.
C22_BoundaryLines ==
    /\ (ret.op = "detect" /\ ret.handler.cls \in {"YAMLHandler", "TOMLHandler"})
           => (ret.value <=> IsRunLine(Mark(ret.handler.cls), FirstLine(text)))
    /\ BaseSplit
           => (ret.r.exc = "none"
                  <=> Cardinality(BoundaryRows(ret.handler.cls, text)) >= 2)
    /\ (BaseSplit /\ ret.r.exc = "none")
           => /\ NonBlank(SplitLines(ret.r.fm))
                     = NonBlank(RowsFrom(text, FirstRow(ret.handler.cls, text),
                                         SecondRow(ret.handler.cls, text)))
              /\ NonBlank(SplitLines(ret.r.content))
                     = NonBlank(RowsFrom(text, SecondRow(ret.handler.cls, text),
                                         Len(SplitLines(text)) + 1))

\* a line that resembles a boundary line is kept in the metadata span
C22_Witness ==
    /\ BaseSplit /\ ret.handler.cls = "YAMLHandler"
    /\ Cardinality(BoundaryRows("YAMLHandler", text)) = 2
    /\ ret.r.exc = "none"
    /\ ret.r.fm = <<LF, SP>> \o Rep("-", MinRun) \o <<LF>>
    /\ ret.r.content = <<LF, "x">>

(***************************************************************************)
(* C23: a handler passed to parse or loads is used without detection       *)
(***************************************************************************)
\* the result r of a parse that applies split and load of the handler h to
\* the text t, with the defaults d: sp is what split returns, ld what load
\* returns on the metadata span
AppliedLoad(r, d, sp, ld) ==
    IF ld.exc # "none" THEN r.exc = ld.exc
    ELSE /\ r.exc = "none"
         /\ r.content = strip(sp.content)
         /\ r.metadata = IF ld.value.type = "dict" THEN DictUpdate(d, ld.value.items)
                         ELSE d

AppliedSplit(r, h, t, d, sp) ==
    IF sp.exc # "none"
    THEN r.exc = "none" /\ r.metadata = d /\ r.content = t
    ELSE AppliedLoad(r, d, sp, load(h, sp.fm))

AppliedTo(r, h, t, d) == AppliedSplit(r, h, t, d, split(h, t))

\* C23: when a handler is passed to parse or loads, no detect is called, the
\* handler's split and load are applied to the trimmed text whatever its
\* first line is, and when its split fails the result is the defaults and
\* the trimmed text parse works on; loads attaches the handler passed.
C23_ExplicitHandler ==
    /\ (ret.op = "parse" /\ ret.handler # None)
           => /\ ret.calls = <<>>
              /\ ret.r.handler = ret.handler
              /\ AppliedTo(ret.r, ret.handler, strip(u(text)), ret.defaults)
    /\ (ret.op = "loads" /\ ret.handler # None)
           => /\ ret.calls = <<>>
              /\ AppliedTo([exc |-> ret.exc, metadata |-> post.metadata,
                            content |-> post.content],
                           ret.handler, LoadsText, ret.defaults)
              /\ ret.exc = "none" => post.handler = ret.handler

\* the JSON handler is passed for a text with YAML front matter: no retry
C23_Witness ==
    /\ ret.op = "parse" /\ ret.handler = JSONHandler(2)
    /\ detect_format(strip(u(text)), handlers) = YAMLHandler(1)
    /\ parse(text, None, ret.defaults).at = "97"
    /\ ret.calls = <<>> /\ ret.r.at = "90"
    /\ ret.r.metadata = ret.defaults /\ ret.r.content = strip(u(text))

(***************************************************************************)
(* C24: no CR LF pair is left in the text parse works on                   *)
(***************************************************************************)
\* C24: whatever CR and LF characters the input holds, the text parse hands
\* to detect and split and the content it returns contain no CR LF pair.
C24_NoCRLF ==
    ret.op = "parse"
        => /\ ~HasCRLF(parse_text(text))
           /\ ret.r.exc = "none" => ~HasCRLF(ret.r.content)

(***************************************************************************)
(* C26: loads returns what parse returns                                   *)
(***************************************************************************)
\* C26: whenever parse returns (metadata, content) for a text, a handler and
\* defaults, loads with the same arguments returns a Post with that metadata
\* and that content, whatever keys the front matter defines.
C26_LoadsAgreesWithParse ==
    (ret.op = "loads" /\ parse(text, ret.handler, ret.defaults).exc = "none")
        => /\ ret.exc = "none"
           /\ post.metadata = parse(text, ret.handler, ret.defaults).metadata
           /\ post.content = parse(text, ret.handler, ret.defaults).content

(***************************************************************************)
(* C28: the round trip of a post with empty metadata                       *)
(***************************************************************************)
\* C28: for each built-in handler H and each post with empty metadata and
\* trimmed content, loads(dumps(post, handler=H)) has empty metadata, the
\* content of the post and a handler of the class of H.
C28_EmptyRoundTrip ==
    (ret.op = "dumps" /\ ret.handler # None /\ ret.kwargs = NoKwargs
       /\ post.metadata = <<>> /\ post.content = strip(post.content))
        => /\ ret.exc = "none"
           /\ loads(ret.value, None, <<>>).exc = "none"
           /\ loads(ret.value, None, <<>>).post.metadata = <<>>
           /\ loads(ret.value, None, <<>>).post.content = post.content
           /\ loads(ret.value, None, <<>>).post.handler.cls = ret.handler.cls

(***************************************************************************)
(* load on a readable source whose read() yields a character string or     *)
(* the bytes that encode it                                                *)
(***************************************************************************)
\* a character outside ASCII
EACUTE == "U+00E9"

Chars == {LF, CR, SP, QUOTE, "+", ",", "-", "1", "2", ":", "=", "a", "b", "x", "y",
          "{", "}", EACUTE}

\* the UTF-8 bytes of a character
Utf8(c) ==
    CASE c = LF -> <<10>> [] c = CR -> <<13>> [] c = SP -> <<32>>
      [] c = QUOTE -> <<34>> [] c = "+" -> <<43>> [] c = "," -> <<44>>
      [] c = "-" -> <<45>> [] c = "1" -> <<49>> [] c = "2" -> <<50>>
      [] c = ":" -> <<58>> [] c = "=" -> <<61>> [] c = "a" -> <<97>>
      [] c = "b" -> <<98>> [] c = "x" -> <<120>> [] c = "y" -> <<121>>
      [] c = "{" -> <<123>> [] c = "}" -> <<125>> [] c = EACUTE -> <<195, 169>>

\* str.encode("utf-8")
encode(s) == Concat([i \in DOMAIN s |-> Utf8(s[i])])

\* the character whose bytes b starts with
FirstChar(b) ==
    CHOOSE c \in Chars :
        Len(b) >= Len(Utf8(c)) /\ SubSeq(b, 1, Len(Utf8(c))) = Utf8(c)

\* bytes.decode("utf-8"), u line 25
RECURSIVE decode(_)
decode(b) ==
    IF b = <<>> THEN <<>>
    ELSE <<FirstChar(b)>> \o decode(SubSeq(b, Len(Utf8(FirstChar(b))) + 1, Len(b)))

\* u lines 24-27: the character string of data that is str or bytes
str_of(d) == IF d.type = "bytes" THEN decode(d.data) ELSE d.data

\* load line 172: handler = handler or detect_format(text, handlers), on
\* the data as read; FM_BOUNDARY.match raises TypeError on bytes
load_handler(d, handler) ==
    IF handler # None THEN [exc |-> "none", handler |-> handler, on |-> "none"]
    ELSE IF d.type = "bytes" /\ handlers # <<>>
    THEN [exc |-> "TypeError", handler |-> None, on |-> d.type]
    ELSE [exc |-> "none", handler |-> detect_format(d.data, handlers), on |-> d.type]

\* load lines 172-173, after the read
frontmatter_load(d, handler, defaults) ==
    IF load_handler(d, handler).exc # "none"
    THEN [exc |-> load_handler(d, handler).exc, post |-> NoPost]
    ELSE loads(str_of(d), load_handler(d, handler).handler, defaults)

LoadTexts ==
    UNION {{Doc(lead, Opening(cls), eol, meta, close, body) :
                lead \in {<<>>, <<LF>>}, eol \in EOLs,
                meta \in {<<>>, <<Entry(cls, "a", "1")>>},
                close \in {<<>>, Boundary(cls)},
                body \in {<<"x">>, <<EACUTE>>, <<"x", CR, CR, LF, "y">>}} :
           cls \in Classes}

InitLoad == text \in LoadTexts /\ post = NoPost /\ ret = Fresh /\ Sequential

\* load line 163: what fd.read() yields, for a source opened as text or as
\* bytes
Read(kind) ==
    IF kind = "bytes" THEN [type |-> "bytes", data |-> encode(text)]
    ELSE [type |-> "str", data |-> text]

LoadDone(kind, h, d, on, r) ==
    /\ ret' = [op |-> "load", kind |-> kind, handler |-> h, defaults |-> d,
               on |-> on, exc |-> r.exc]
    /\ post' = r.post

\* post = frontmatter.load(fd, handler=h, **d)
Load(kind, h, d) ==
    /\ ret.op = "init"
    /\ LoadDone(kind, h, d, load_handler(Read(kind), h).on,
                frontmatter_load(Read(kind), h, d))
    /\ UNCHANGED <<text, shared>>

NextLoad ==
    \/ \E kind \in {"str", "bytes"}, h \in HandlerArgs, d \in Defaults : Load(kind, h, d)
    \/ \E h \in HandlerArgs, d \in Defaults : Loads(h, d)

LoadSpec == InitLoad /\ [][NextLoad]_vars

(***************************************************************************)
(* C27: load returns what loads returns on the data read                   *)
(***************************************************************************)
\* C27: for a source whose read() yields the data d, text or bytes, load
\* returns a Post with the metadata, content and handler of loads(d), and
\* detect is never applied to bytes.
C27_LoadAgreesWithLoads ==
    ret.op = "load"
        => /\ ret.exc = loads(str_of(Read(ret.kind)), ret.handler, ret.defaults).exc
           /\ post = loads(str_of(Read(ret.kind)), ret.handler, ret.defaults).post
           /\ ret.on # "bytes"

(***************************************************************************)
(* Concurrent calls: threads that call parse and dumps on one text and one *)
(* post, sharing the registry and its handler instances.  A step of a      *)
(* thread is one statement of parse, detect_format, dumps or format.       *)
(***************************************************************************)
\* the number of threads
MaxThreads == 2

ThreadTexts ==
    {Doc(<<>>, Opening(cls), <<LF>>, <<Entry(cls, "a", "1")>>, Boundary(cls), <<"x">>) :
         cls \in {"YAMLHandler", "JSONHandler"}}
    \cup {<<"x">>}

ThreadPosts ==
    {PostInit(<<"x">>, handlers[1], <<<<"a", "1">>>>).post, PostInit(<<>>, None, <<>>).post}

ThreadKwargs == {NoKwargs, [start_delimiter |-> Rep("+", MinRun)]}

\* the locals of a thread that is in no call
Idle ==
    [pc |-> "idle", op |-> "none", arg |-> None, call |-> NoKwargs,
     kwargs |-> NoKwargs, t |-> <<>>,
     i |-> 0, h |-> None, sp |-> [exc |-> "none", fm |-> <<>>, content |-> <<>>],
     start |-> <<>>, end |-> <<>>, out |-> [exc |-> "none"]]

InitThreads ==
    /\ text \in ThreadTexts /\ post \in ThreadPosts /\ ret = Fresh
    /\ global_handlers = handlers
    /\ attrs = [i \in DOMAIN handlers |-> HandlerAttrs(handlers[i].cls)]
    /\ threads = [n \in 1..MaxThreads |-> Idle]

\* the attributes of the instance h: those of a registered instance are
\* shared, an instance made for one call has those of its class
AttrsOf(h) == IF h.id \in DOMAIN attrs THEN attrs[h.id] ELSE HandlerAttrs(h.cls)

\* what parse returns: metadata and content, or an exception
Outcome(r) == [exc |-> r.exc, metadata |-> r.metadata, content |-> r.content]

\* the thread n calls parse(text, handler=arg)
BeginParse(n, arg) ==
    /\ threads[n].pc = "idle"
    /\ threads' = [threads EXCEPT ![n] = [Idle EXCEPT !.pc = "75", !.op = "parse", !.arg = arg]]
    /\ UNCHANGED <<text, post, ret, global_handlers, attrs>>

\* parse line 75: text = u(text, encoding).strip()
StripText(n) ==
    /\ threads[n].pc = "75"
    /\ threads' = [threads EXCEPT ![n].t = parse_text(text), ![n].pc = "81"]
    /\ UNCHANGED <<text, post, ret, global_handlers, attrs>>

\* parse line 81: handler = handler or detect_format(text, handlers)
Resolve(n) ==
    /\ threads[n].pc = "81"
    /\ threads' =
           IF threads[n].arg # None
           THEN [threads EXCEPT ![n].h = threads[n].arg, ![n].pc = "86"]
           ELSE [threads EXCEPT ![n].i = 1, ![n].pc = "41"]
    /\ UNCHANGED <<text, post, ret, global_handlers, attrs>>

\* detect_format lines 41-46: one turn of the loop over the registry, and
\* parse lines 82-83 when no handler detects the text
DetectNext(n) ==
    /\ threads[n].pc = "41"
    /\ threads' =
           IF threads[n].i > Len(global_handlers)
           THEN [threads EXCEPT ![n].pc = "done",
                                ![n].out = [exc |-> "none", metadata |-> <<>>,
                                            content |-> threads[n].t]]
           ELSE IF re_match(AttrsOf(global_handlers[threads[n].i]).FM_BOUNDARY, threads[n].t)
           THEN [threads EXCEPT ![n].h = global_handlers[threads[n].i], ![n].pc = "86"]
           ELSE [threads EXCEPT ![n].i = @ + 1]
    /\ UNCHANGED <<text, post, ret, global_handlers, attrs>>

SplitDone(n, sp) ==
    threads' =
        IF sp.exc \in ValueErrors
        THEN [threads EXCEPT ![n].pc = "done",
                             ![n].out = [exc |-> "none", metadata |-> <<>>,
                                         content |-> threads[n].t]]
        ELSE [threads EXCEPT ![n].sp = sp, ![n].pc = "93"]

\* parse lines 85-90: fm, content = handler.split(text), with the
\* FM_BOUNDARY of the instance
SplitText(n) ==
    /\ threads[n].pc = "86"
    /\ SplitDone(n, Unpack(threads[n].h,
                           re_split(AttrsOf(threads[n].h).FM_BOUNDARY, threads[n].t, MaxSplit)))
    /\ UNCHANGED <<text, post, ret, global_handlers, attrs>>

\* parse lines 93-97: load, merge and return
LoadText(n) ==
    /\ threads[n].pc = "93"
    /\ threads' = [threads EXCEPT
                       ![n].pc = "done",
                       ![n].out = Outcome(parse_load(threads[n].t, threads[n].h, <<>>,
                                                     threads[n].sp,
                                                     load(threads[n].h, threads[n].sp.fm)))]
    /\ UNCHANGED <<text, post, ret, global_handlers, attrs>>

\* the thread n calls dumps(post, handler=arg, **kwargs)
BeginDumps(n, arg, kwargs) ==
    /\ threads[n].pc = "idle"
    /\ threads' = [threads EXCEPT ![n] = [Idle EXCEPT !.pc = "289", !.op = "dumps",
                                                       !.arg = arg, !.call = kwargs,
                                                       !.kwargs = kwargs]]
    /\ UNCHANGED <<text, post, ret, global_handlers, attrs>>

\* dumps lines 289-290
ResolveDumps(n) ==
    /\ threads[n].pc = "289"
    /\ threads' = [threads EXCEPT ![n].h = dumps_handler(post, threads[n].arg),
                                  ![n].pc = "233"]
    /\ UNCHANGED <<text, post, ret, global_handlers, attrs>>

\* a format that keeps the delimiters of the call on the instance
format_pop_stored(a, h, kwargs) ==
    [attrs |-> IF h.id \in DOMAIN a
               THEN [a EXCEPT ![h.id].START_DELIMITER =
                                  IF HasKw(kwargs, "start_delimiter")
                                  THEN kwargs["start_delimiter"] ELSE @,
                              ![h.id].END_DELIMITER =
                                  IF HasKw(kwargs, "end_delimiter")
                                  THEN kwargs["end_delimiter"] ELSE @]
               ELSE a,
     start |-> IF HasKw(kwargs, "start_delimiter") THEN kwargs["start_delimiter"]
               ELSE IF h.id \in DOMAIN a THEN a[h.id].START_DELIMITER
               ELSE HandlerAttrs(h.cls).START_DELIMITER,
     end |-> IF HasKw(kwargs, "end_delimiter") THEN kwargs["end_delimiter"]
             ELSE IF h.id \in DOMAIN a THEN a[h.id].END_DELIMITER
             ELSE HandlerAttrs(h.cls).END_DELIMITER]

\* format lines 233-234: the delimiters are popped from the kwargs of the
\* call into locals, self.START_DELIMITER and self.END_DELIMITER being the
\* defaults; the attributes a of the instances are read only
format_pop(a, h, kwargs) ==
    [attrs |-> a,
     start |-> IF HasKw(kwargs, "start_delimiter") THEN kwargs["start_delimiter"]
               ELSE IF h.id \in DOMAIN a THEN a[h.id].START_DELIMITER
               ELSE HandlerAttrs(h.cls).START_DELIMITER,
     end |-> IF HasKw(kwargs, "end_delimiter") THEN kwargs["end_delimiter"]
             ELSE IF h.id \in DOMAIN a THEN a[h.id].END_DELIMITER
             ELSE HandlerAttrs(h.cls).END_DELIMITER]

PopDone(n, r) ==
    /\ attrs' = r.attrs
    /\ threads' = [threads EXCEPT ![n].start = r.start, ![n].end = r.end,
                                  ![n].kwargs = Pop(@, DelimiterOptions),
                                  ![n].pc = "236"]

\* format lines 233-234
PopDelimiters(n) ==
    /\ threads[n].pc = "233"
    /\ PopDone(n, format_pop(attrs, threads[n].h, threads[n].kwargs))
    /\ UNCHANGED <<text, post, ret, global_handlers>>

\* format lines 236-243: export the metadata, fill the template, strip
ExportAndFill(n) ==
    /\ threads[n].pc = "236"
    /\ threads' = [threads EXCEPT
                       ![n].pc = "done",
                       ![n].out = format_filled(post, threads[n].start, threads[n].end,
                                                export(threads[n].h, post.metadata,
                                                       threads[n].kwargs))]
    /\ UNCHANGED <<text, post, ret, global_handlers, attrs>>

NextThreads ==
    \/ \E n \in 1..MaxThreads, arg \in {None, handlers[1]} : BeginParse(n, arg)
    \/ \E n \in 1..MaxThreads : StripText(n)
    \/ \E n \in 1..MaxThreads : Resolve(n)
    \/ \E n \in 1..MaxThreads : DetectNext(n)
    \/ \E n \in 1..MaxThreads : SplitText(n)
    \/ \E n \in 1..MaxThreads : LoadText(n)
    \/ \E n \in 1..MaxThreads, arg \in {None, handlers[1]}, kwargs \in ThreadKwargs :
           BeginDumps(n, arg, kwargs)
    \/ \E n \in 1..MaxThreads : ResolveDumps(n)
    \/ \E n \in 1..MaxThreads : PopDelimiters(n)
    \/ \E n \in 1..MaxThreads : ExportAndFill(n)

ThreadSpec == InitThreads /\ [][NextThreads]_vars

(***************************************************************************)
(* C25: no call changes the handlers, the registry or the post             *)
(***************************************************************************)
\* what the call of a thread returns when it runs alone
Alone(th) ==
    IF th.op = "parse" THEN Outcome(parse(text, th.arg, <<>>))
    ELSE dumps(post, th.arg, th.call)

Finished(n) == threads[n].pc = "done"

\* two dumps calls that render with the registered YAML handler have
\* finished, one of them with a start delimiter of its own
C25_Witness ==
    /\ \A n \in DOMAIN threads : Finished(n) /\ threads[n].op = "dumps"
    /\ \E n, m \in DOMAIN threads :
           /\ threads[n].h = handlers[1] /\ threads[m].h = handlers[1]
           /\ threads[n].call = [start_delimiter |-> Rep("+", MinRun)]
           /\ threads[m].call = NoKwargs
           /\ SubSeq(threads[n].out.value, 1, MinRun) = Rep("+", MinRun)
           /\ SubSeq(threads[m].out.value, 1, MinRun) = Rep("-", MinRun)
    /\ \E n \in DOMAIN threads : threads[n].op = "dumps"

\* C25: no step of a parse or dumps call changes the boundary pattern or
\* the delimiters of a handler instance, the registry or the post, and under
\* every interleaving of the calls of the threads each call returns what it
\* returns when it runs alone.
C25_CallsShareNothing ==
    /\ [][/\ global_handlers' = global_handlers
           /\ attrs' = attrs
           /\ post' = post]_vars
    /\ [](\A n \in DOMAIN threads :
              Finished(n) => threads[n].out = Alone(threads[n]))
====
